---- MODULE Spec2Model ----
(***************************************************************************)
(* Bowser: SSH bastion daemon.  Account store (reloadAccounts), the        *)
(* handshake callback and accept loop of SSHDState.Run, the session table, *)
(* the direct-tcpip forward handler of SSHSession (handleChannelForward)   *)
(* with its teardown latch, and the shell-mode handler with its MFA loop.  *)
(***************************************************************************)
EXTENDS Integers, Sequences, FiniteSets, TLC

(***************************************************************************)
(* Bounds of the model                                                     *)
(***************************************************************************)
MaxAccounts == 2
MaxKeys == 2
MaxReloads == 1
MaxConns == 1
MaxTableConns == 3
MaxChannels == 2
MaxSigners == 2

(***************************************************************************)
(* Values                                                                  *)
(***************************************************************************)
Users == {"alice", "bob"}
\* wire identities (key.Marshal()) of the public keys an accounts file can hold
KeyIds == {"k1", "k2"}
\* a key no accounts file holds
UnknownKey == "kx"
\* the key a dishonest agent signs with instead of the one it announced
OtherKey == "kz"

SeqsUpTo(S, n) == UNION {[1..k -> S] : k \in 0..n}

\* a compiled regular expression is the set of strings it matches; NoRe is
\* the nil *regexp.Regexp
NoRe == [nil |-> TRUE, lang |-> {}]
Re(L) == [nil |-> FALSE, lang |-> L]
Match(re, str) == str \in re.lang

\* authorized_keys lines: key blob and comment; "garbage" does not parse
RawLines == {<<"k1", "a">>, <<"k1", "b">>, <<"k2", "a">>, <<"garbage", "a">>}

\* strings a destination can be given as: the host of a forward request and
\* the host:port string fmt.Sprintf("%s:%d", msg.RAddr, msg.RPort) makes of it
Hosts == {"db-01", "evil.example.com"}
Ports == {22}
HostPort(h, p) == h \o ":" \o ToString(p)

\* ssh.ParseAuthorizedKey as used by NewAccountKey
ParseAuthorizedKey(rawKey) ==
    IF rawKey[1] \in KeyIds
    THEN [err |-> FALSE, key |-> rawKey[1], comment |-> rawKey[2]]
    ELSE [err |-> TRUE, key |-> "", comment |-> ""]

\* NewAccountKey(account, rawKey): account is a pointer (a heap cell)
NewAccountKey(account, rawKey) ==
    LET p == ParseAuthorizedKey(rawKey) IN
    IF p.err
    THEN [err |-> TRUE, Account |-> 0, Key |-> "", Comment |-> ""]
    ELSE [err |-> FALSE, Account |-> account, Key |-> p.key, Comment |-> p.comment]

\* AccountKey.ID(): the wire form of the key
ID(accountKey) == accountKey.Key

Account(u, ks, wl, bl) ==
    [Username |-> u, SSHKeysRaw |-> ks, whitelistRe |-> wl, blacklistRe |-> bl]

\* accounts files the loader can return (no policy expressions)
PlainAccounts == {Account(u, ks, NoRe, NoRe) : u \in Users, ks \in SeqsUpTo(RawLines, MaxKeys)}
Files == SeqsUpTo(PlainAccounts, MaxAccounts)

\* LoadAccounts(path): an error or the parsed array
LoadResults == {[err |-> TRUE, raw |-> <<>>]} \cup {[err |-> FALSE, raw |-> f] : f \in Files}

EmptyMap == [x \in {} |-> 0]

\* policy expressions of the boot files: ^db-01$ matches the host alone,
\* evil\.example\.com matches wherever the name occurs
ReDb == Re({"db-01"})
ReEvil == Re({"evil.example.com"} \cup {HostPort("evil.example.com", p) : p \in Ports})
ReAny == Re(Hosts \cup {HostPort(h, p) : h \in Hosts, p \in Ports})

\* the accounts files the daemon is started with (NewSSHDState)
BootFileA == <<Account("alice", <<<<"k1", "a">>>>, ReDb, NoRe), Account("bob", <<<<"k2", "a">>>>, NoRe, ReEvil)>>
BootFileB == <<Account("bob", <<<<"k2", "a">>>>, ReAny, ReEvil), Account("alice", <<<<"k1", "a">>>>, NoRe, NoRe)>>
BootFileC == <<Account("alice", <<<<"garbage", "a">>, <<"k1", "b">>>>, ReDb, ReAny)>>

\* SSH channel-open rejection reasons and channel types
Prohibited == "prohibited"
ConnectionFailed == "connection-failed"
UnknownChannelType == "unknown-channel-type"
ChannelTypes == {"direct-tcpip", "session"}

\* agent.AddedKey.LifetimeSecs and the length of the random challenge
LifetimeSecs == 10
TokenLen == 128
Tokens == {[len |-> TokenLen, bytes |-> b] : b \in {"r1", "r2"}}

\* a signer of the forwarded agent: the public key it announces and the
\* private key it signs with
AgentSigners ==
    {[pub |-> k, priv |-> k] : k \in KeyIds \cup {UnknownKey}}
        \cup {[pub |-> "k1", priv |-> OtherKey]}
SignerLists == SeqsUpTo(AgentSigners, MaxSigners)

\* the deployments the daemon is started in: Config.ForceUser and what
\* LoadAccounts returns for Config.Accounts
Deployments ==
    { [ForceUser |-> "", load |-> [err |-> TRUE, raw |-> <<>>]],
      [ForceUser |-> "", load |-> [err |-> FALSE, raw |-> BootFileA]],
      [ForceUser |-> "root", load |-> [err |-> FALSE, raw |-> BootFileB]],
      [ForceUser |-> "", load |-> [err |-> FALSE, raw |-> BootFileC]] }

NoReject == [code |-> "none", msg |-> ""]
NoCert == [generated |-> FALSE, added |-> FALSE, keyId |-> 0, principal |-> "", lifetime |-> 0, comment |-> ""]

\* a channel the client has not opened yet
IdleChannel ==
    [pc |-> "idle", sess |-> 0, type |-> "", raddr |-> "", rport |-> 0,
     reject |-> NoReject, agentChan |-> "none", signers |-> <<>>,
     policy |-> "none", cert |-> NoCert, notified |-> FALSE, dialed |-> FALSE,
     conn |-> "none", proxiesRead |-> <<>>, accepted |-> FALSE, channel |-> "none",
     copy |-> <<"none", "none">>, once |-> FALSE, teardowns |-> 0]

\* shell mode: the attempts of the MFA loop, the TOTP secrets of the accounts
\* file, the code a secret yields at the time of the login, and the lines a
\* client can type
MfaAttempts == 3
TotpSecret(username) == "secret-" \o username
TotpCode(secret) ==
    IF secret = "secret-alice" THEN "111111"
    ELSE IF secret = "secret-bob" THEN "222222"
    ELSE "999999"
Lines == {"111111", "222222", "000000"}

\* totp.Validate(line, secret)
Validate(line, secret) == line = TotpCode(secret)

\* a channel of a shell-mode session that the client has not opened yet
IdleShellChannel ==
    [pc |-> "idle", sess |-> 0, type |-> "", reject |-> NoReject,
     connection |-> "none", motd |-> FALSE, i |-> 0, entered |-> <<>>,
     valid |-> FALSE, shell |-> "none", copy |-> <<"none", "none">>,
     once |-> FALSE, closes |-> 0]

VARIABLES
    loopvar,      \* "shared": one `account` variable per range loop; "fresh": one per iteration
    accounts,     \* SSHDState.accounts: username -> *Account (heap cell)
    keys,         \* SSHDState.keys: key wire id -> AccountKey
    heap,         \* heap cell -> Account value
    lastLoad,     \* what LoadAccounts returned to the last reloadAccounts call
    lastOutcome,  \* how the last reloadAccounts call ended
    nReloads,     \* number of reloadAccounts calls after construction
    forceUser,    \* Config.ForceUser
    nConns,       \* connections the accept loop of Run has taken
    hs,           \* the last handshake: user, key offered, error of the callback
    crashed,      \* the process has panicked
    sess,         \* the sessions in creation order; the index is the UUID
    sessions,     \* SSHDState.sessions: the UUIDs the session table holds
    deleting,     \* the sessions whose handleChannels is inside delete(s.State.sessions, ...)
    ch,           \* channel id -> the channel and the state of its handler
    sh            \* channel id -> the channel and its handler, in shell mode

storeVars == <<loopvar, accounts, keys, heap, lastLoad, lastOutcome, nReloads>>
tableVars == <<sessions, deleting>>
daemonVars == <<forceUser, nConns, hs, crashed, sess, sessions, deleting, ch, sh>>
vars == <<loopvar, accounts, keys, heap, lastLoad, lastOutcome, nReloads,
          forceUser, nConns, hs, crashed, sess, sessions, deleting, ch, sh>>

Channels == 1..MaxChannels

(***************************************************************************)
(* reloadAccounts                                                          *)
(***************************************************************************)
\* &account in iteration i of `for _, account := range rawAccounts`
AddrOfAccount(lv, i) == IF lv = "shared" THEN 1 ELSE i

\* the inner loop without the duplicate test: a later key replaces the entry
RECURSIVE AddKeysOverwriting(_, _, _)
AddKeysOverwriting(raw, ptr, km) ==
    IF raw = <<>> THEN [dup |-> FALSE, keys |-> km]
    ELSE LET key == NewAccountKey(ptr, Head(raw)) IN
         IF key.err THEN AddKeysOverwriting(Tail(raw), ptr, km)
         ELSE AddKeysOverwriting(Tail(raw), ptr,
                [k \in DOMAIN km \cup {ID(key)} |->
                    IF k = ID(key) THEN [Account |-> ptr, Key |-> key.Key, Comment |-> key.Comment]
                    ELSE km[k]])

\* the inner loop over account.SSHKeysRaw
RECURSIVE AddKeys(_, _, _)
AddKeys(raw, ptr, km) ==
    IF raw = <<>> THEN [dup |-> FALSE, keys |-> km]
    ELSE LET key == NewAccountKey(ptr, Head(raw)) IN
         IF key.err THEN AddKeys(Tail(raw), ptr, km)
         ELSE IF ID(key) \in DOMAIN km THEN [dup |-> TRUE, keys |-> km]
         ELSE AddKeys(Tail(raw), ptr, km @@ (ID(key) :> [Account |-> ptr, Key |-> key.Key, Comment |-> key.Comment]))

\* the outer loop over rawAccounts, from iteration i with the maps built so far
RECURSIVE LoadLoop(_, _, _, _, _)
LoadLoop(raw, i, am, km, lv) ==
    IF i > Len(raw) THEN [outcome |-> "ok", accounts |-> am, keys |-> km]
    ELSE LET account == raw[i]
             ptr == AddrOfAccount(lv, i)
         IN  IF account.Username \in DOMAIN am
             THEN [outcome |-> "dupuser", accounts |-> am, keys |-> km]
             ELSE LET r == AddKeys(account.SSHKeysRaw, ptr, km) IN
                  IF r.dup
                  THEN [outcome |-> "dupkey", accounts |-> am @@ (account.Username :> ptr), keys |-> r.keys]
                  ELSE LoadLoop(raw, i + 1, am @@ (account.Username :> ptr), r.keys, lv)

\* the cells the loop variable(s) occupy once the loop is over
HeapAfter(raw, lv) ==
    IF raw = <<>> THEN EmptyMap
    ELSE IF lv = "shared" THEN (1 :> raw[Len(raw)])
    ELSE [i \in 1..Len(raw) |-> raw[i]]

\* a reload that fills s.accounts and s.keys while it reads the file
ReloadResultInPlace(old, loaded, lv) ==
    IF loaded.err THEN [old EXCEPT !.outcome = "loaderr"]
    ELSE LET r == LoadLoop(loaded.raw, 1, EmptyMap, EmptyMap, lv) IN
         [outcome |-> r.outcome, accounts |-> r.accounts, keys |-> r.keys,
          heap |-> HeapAfter(loaded.raw, lv)]

\* the store a reloadAccounts call leaves, given the store before it
ReloadResult(old, loaded, lv) ==
    IF loaded.err THEN [old EXCEPT !.outcome = "loaderr"]
    ELSE LET r == LoadLoop(loaded.raw, 1, EmptyMap, EmptyMap, lv) IN
         IF r.outcome # "ok" THEN [old EXCEPT !.outcome = r.outcome]
         ELSE [outcome |-> "ok", accounts |-> r.accounts, keys |-> r.keys,
               heap |-> HeapAfter(loaded.raw, lv)]

Store == [outcome |-> lastOutcome, accounts |-> accounts, keys |-> keys, heap |-> heap]

reloadAccounts(loaded) ==
    /\ nReloads < MaxReloads
    /\ LET r == ReloadResult(Store, loaded, loopvar) IN
        /\ accounts' = r.accounts
        /\ keys' = r.keys
        /\ heap' = r.heap
        /\ lastOutcome' = r.outcome
    /\ lastLoad' = loaded
    /\ nReloads' = nReloads + 1
    /\ UNCHANGED <<loopvar, daemonVars>>

\* the zero SSHDState: nil maps
ZeroStore == [outcome |-> "none", accounts |-> EmptyMap, keys |-> EmptyMap, heap |-> EmptyMap]

\* NewSSHDState: the state after the constructor's reloadAccounts call
InitStore ==
    /\ loopvar \in {"shared", "fresh"}
    /\ \E d \in Deployments : lastLoad = d.load /\ forceUser = d.ForceUser
    /\ LET r == ReloadResult(ZeroStore, lastLoad, loopvar) IN
        /\ accounts = r.accounts
        /\ keys = r.keys
        /\ heap = r.heap
        /\ lastOutcome = r.outcome
    /\ nReloads = 0

InitDaemon ==
    /\ nConns = 0
    /\ hs = [user |-> "", key |-> "", err |-> "none"]
    /\ crashed = FALSE
    /\ sess = <<>>
    /\ sessions = {}
    /\ deleting = {}
    /\ ch = [c \in Channels |-> IdleChannel]
    /\ sh = [c \in Channels |-> IdleShellChannel]

Init == InitStore /\ InitDaemon

NextStore == \E loaded \in LoadResults : reloadAccounts(loaded)

SpecStore == Init /\ [][NextStore]_vars

(***************************************************************************)
(* SSHDState.Run: the handshake and the creation of sessions               *)
(***************************************************************************)
\* badKeyError, or "nil" when the key is accepted
PublicKeyCallback(user, key) ==
    IF key \notin DOMAIN keys THEN "badKeyError"
    ELSE IF user # heap[keys[key].Account].Username THEN "badKeyError"
    ELSE "nil"

\* NewSSHSession: Account is state.accounts[conn.User()], nil (0) when absent
NewSSHSession(user) ==
    [user |-> user,
     Account |-> IF user \in DOMAIN accounts THEN accounts[user] ELSE 0,
     Agent |-> 0, Proxies |-> <<>>, verified |-> FALSE, open |-> TRUE]

\* a write to the session table by one goroutine while another goroutine is
\* inside a write of its own (Go maps are not safe for concurrent writes)
Racing(writers) == writers # {}

\* what an unsynchronised write can leave of the table it was to leave as
\* intended: without a race the intended table; in a race the runtime may
\* also stop the process ("concurrent map writes") or lose entries
RaceOutcomes(intended, racing) ==
    IF ~racing THEN {[fatal |-> FALSE, table |-> intended]}
    ELSE {[fatal |-> TRUE, table |-> intended]}
            \cup {[fatal |-> FALSE, table |-> t] : t \in SUBSET intended}

\* the session table with the new session registered under its UUID
InsertSession(table, uuid) == table \cup {uuid}

\* delete(s.State.sessions, s.UUID)
DeleteSession(table, uuid) == table \ {uuid}

\* one iteration of the accept loop: ssh.NewServerConn runs the callback on
\* the key the client offers; proves says whether the client then proves
\* possession of that key.  On a handshake error sshConn is nil and the
\* log call sshConn.User() panics.  A new session is registered in the table.
RunAccept(user, key, proves) ==
    /\ ~crashed
    /\ nConns' = nConns + 1
    /\ LET err == PublicKeyCallback(user, key) IN
        /\ hs' = [user |-> user, key |-> key, err |-> err]
        /\ IF err = "nil" /\ proves
           THEN /\ sess' = Append(sess, NewSSHSession(user))
                /\ \E out \in RaceOutcomes(InsertSession(sessions, Len(sess) + 1), Racing(deleting)) :
                      /\ sessions' = out.table
                      /\ crashed' = out.fatal
           ELSE /\ crashed' = TRUE
                /\ UNCHANGED <<sess, sessions>>
    /\ UNCHANGED <<storeVars, deleting, forceUser, ch, sh>>

\* handleChannels: the channel stream of the session ends (the connection is
\* gone), the range loop is left and the delete call is entered
SessionEnd(s) ==
    /\ ~crashed
    /\ s \in 1..Len(sess)
    /\ sess[s].open
    /\ sess' = [sess EXCEPT ![s].open = FALSE]
    /\ \E out \in RaceOutcomes(sessions, Racing(deleting)) :
          /\ sessions' = out.table
          /\ crashed' = out.fatal
    /\ deleting' = deleting \cup {s}
    /\ UNCHANGED <<storeVars, forceUser, nConns, hs, ch, sh>>

\* handleChannels: the delete call returns and the goroutine ends
DeleteReturn(s) ==
    /\ ~crashed
    /\ s \in deleting
    /\ sessions' = DeleteSession(sessions, s)
    /\ deleting' = deleting \ {s}
    /\ UNCHANGED <<storeVars, forceUser, nConns, hs, crashed, sess, ch, sh>>

(***************************************************************************)
(* SSHSession: handleChannels, handleChannel, handleChannelForward         *)
(***************************************************************************)
Rejected(c, code, msg) ==
    [ch[c] EXCEPT !.pc = "rejected", !.signers = <<>>, !.reject = [code |-> code, msg |-> msg]]

\* handleChannels: the client opens a channel on session s and the loop
\* starts a handler for it
NewChannel(c, s, type) ==
    /\ ~crashed
    /\ ch[c].pc = "idle"
    /\ \A d \in Channels : d < c => ch[d].pc # "idle"
    /\ s \in 1..Len(sess)
    /\ sess[s].open
    /\ ch' = [ch EXCEPT ![c] = [@ EXCEPT !.pc = "handle", !.sess = s, !.type = type]]
    /\ UNCHANGED <<storeVars, tableVars, sh, forceUser, nConns, hs, crashed, sess>>

\* handleChannel: the switch on the channel type
handleChannel(c) ==
    /\ ~crashed
    /\ ch[c].pc = "handle"
    /\ ch' = [ch EXCEPT ![c] =
                IF ch[c].type = "direct-tcpip"
                THEN [@ EXCEPT !.pc = "openAgent"]
                ELSE Rejected(c, UnknownChannelType, "unknown channel type")]
    /\ UNCHANGED <<storeVars, tableVars, sh, forceUser, nConns, hs, crashed, sess>>

\* s.Agent assigned ahead of the error test
AgentAssignedAnyway(old, c, ok) == c

\* s.Agent once OpenChannel has returned to the handler of channel c
AgentAfterOpen(old, c, ok) == IF ok THEN c ELSE old

\* s.Conn.OpenChannel("auth-agent@openssh.com") and s.Agent = agent.NewClient(agentChan)
OpenAgent(c, ok) ==
    /\ ~crashed
    /\ ch[c].pc = "openAgent"
    /\ ok => sess[ch[c].sess].open
    /\ ch' = [ch EXCEPT ![c] =
                IF ok
                THEN [@ EXCEPT !.pc = "checkVerified", !.agentChan = "open"]
                ELSE Rejected(c, Prohibited, "you must have an ssh agent open and forwarded")]
    /\ sess' = [sess EXCEPT ![ch[c].sess].Agent = AgentAfterOpen(@, c, ok)]
    /\ UNCHANGED <<storeVars, tableVars, sh, forceUser, nConns, hs, crashed>>

\* if !s.verified
CheckVerified(c) ==
    /\ ~crashed
    /\ ch[c].pc = "checkVerified"
    /\ ch' = [ch EXCEPT ![c] =
                IF sess[ch[c].sess].verified
                THEN [@ EXCEPT !.pc = "policy"]
                ELSE [@ EXCEPT !.pc = "signers"]]
    /\ UNCHANGED <<storeVars, tableVars, sh, forceUser, nConns, hs, crashed, sess>>

\* the agent client s.Agent works while the channel under it is open and the
\* connection is there
AgentUsable(s) ==
    /\ sess[s].open
    /\ sess[s].Agent \in Channels
    /\ ch[sess[s].Agent].agentChan = "open"

\* s.Agent.Signers(): an error or the signers the agent holds.  Certificates
\* added earlier are keys of no account and are skipped like UnknownKey.
Signers(c, ok, list) ==
    /\ ~crashed
    /\ ch[c].pc = "signers"
    /\ ok => AgentUsable(ch[c].sess)
    /\ ch' = [ch EXCEPT ![c] =
                IF ok
                THEN [@ EXCEPT !.pc = "verify", !.signers = list]
                ELSE Rejected(c, Prohibited, "agent will not give us a list of signers")]
    /\ UNCHANGED <<storeVars, tableVars, sh, forceUser, nConns, hs, crashed, sess>>

\* signer.Sign and ssh.PublicKey.Verify
Sign(signer, token) == [key |-> signer.priv, data |-> token]
Verify(key, token, sig) == sig.key = key /\ sig.data = token

\* the loop over the signers: how it ends
RECURSIVE VerifyLoop(_, _, _, _, _, _)
VerifyLoop(signers, km, sAccount, randOk, signOk, token) ==
    IF signers = <<>> THEN "nomatch"
    ELSE LET signer == Head(signers) IN
         IF signer.pub \notin DOMAIN km
         THEN VerifyLoop(Tail(signers), km, sAccount, randOk, signOk, token)
         ELSE LET accountKey == km[signer.pub] IN
              IF accountKey.Account # sAccount
              THEN VerifyLoop(Tail(signers), km, sAccount, randOk, signOk, token)
              ELSE IF ~randOk THEN "cannot generate random token"
              ELSE IF ~signOk THEN "cannot sign random token"
              ELSE IF ~Verify(accountKey.Key, token, Sign(signer, token))
                   THEN "signature verification failed"
              ELSE "verified"

\* s.verified assigned the result of the loop
VerifiedAssigned(old, outcome) == outcome = "verified"

\* s.verified after the loop
VerifiedAfter(old, outcome) == IF outcome = "verified" THEN TRUE ELSE old

VerifySigners(c, randOk, signOk, token) ==
    /\ ~crashed
    /\ ch[c].pc = "verify"
    /\ LET s == ch[c].sess
           outcome == VerifyLoop(ch[c].signers, keys, sess[s].Account, randOk, signOk, token)
       IN /\ sess' = [sess EXCEPT ![s].verified = VerifiedAfter(@, outcome)]
          /\ ch' = [ch EXCEPT ![c] =
                      IF outcome \in {"verified", "nomatch"}
                      THEN [@ EXCEPT !.pc = "policy", !.signers = <<>>]
                      ELSE Rejected(c, Prohibited, outcome)]
    /\ UNCHANGED <<storeVars, tableVars, sh, forceUser, nConns, hs, crashed>>

\* canConnectTo with the blacklist consulted only when there is no whitelist
canConnectToEither(ptr, addr) ==
    IF ~heap[ptr].whitelistRe.nil THEN Match(heap[ptr].whitelistRe, addr)
    ELSE IF ~heap[ptr].blacklistRe.nil /\ Match(heap[ptr].blacklistRe, addr) THEN FALSE
    ELSE TRUE

\* canConnectTo on the account at cell ptr
canConnectTo(ptr, addr) ==
    IF ~heap[ptr].whitelistRe.nil /\ ~Match(heap[ptr].whitelistRe, addr) THEN FALSE
    ELSE IF ~heap[ptr].blacklistRe.nil /\ Match(heap[ptr].blacklistRe, addr) THEN FALSE
    ELSE TRUE

\* the dial address handed to canConnectTo
PolicySubjectAddress(raddr, rport) == HostPort(raddr, rport)

\* the string handed to canConnectTo, of the decoded forward request
PolicySubject(raddr, rport) == raddr

\* ssh.Unmarshal(newChannel.ExtraData(), &msg) and the policy check; the
\* request the client sent with the channel is drawn where it is decoded
PolicyCheck(c, raddr, rport) ==
    /\ ~crashed
    /\ ch[c].pc = "policy"
    /\ ch' = [ch EXCEPT ![c] =
                IF canConnectTo(sess[ch[c].sess].Account, PolicySubject(raddr, rport))
                THEN [@ EXCEPT !.pc = "addAuth", !.policy = "allow", !.raddr = raddr, !.rport = rport]
                ELSE [Rejected(c, ConnectionFailed, "invalid permissions")
                        EXCEPT !.policy = "deny", !.raddr = raddr, !.rport = rport]]
    /\ UNCHANGED <<storeVars, tableVars, sh, forceUser, nConns, hs, crashed, sess>>

\* a principal that is the account's username whatever the configuration
PrincipalOfAccount(force, username) == username

\* the principal addTempAuth asks the CA for
Principal(force, username) == IF force # "" THEN force ELSE username

\* addTempAuth: ca.Generate, then s.Agent.Add on the certificate it made
addTempAuth(c, genOk, addOk) ==
    /\ ~crashed
    /\ ch[c].pc = "addAuth"
    /\ LET s == ch[c].sess IN
        /\ (genOk /\ addOk) => AgentUsable(s)
        /\ ch' = [ch EXCEPT ![c] =
                    IF genOk /\ addOk
                    THEN [@ EXCEPT !.pc = "notify",
                                   !.cert = [generated |-> TRUE, added |-> TRUE, keyId |-> s,
                                             principal |-> Principal(forceUser, heap[sess[s].Account].Username),
                                             lifetime |-> LifetimeSecs, comment |-> ch[c].raddr]]
                    ELSE [Rejected(c, Prohibited, "failed to generate or add ssh certificate")
                            EXCEPT !.cert.generated = genOk]]
    /\ UNCHANGED <<storeVars, tableVars, sh, forceUser, nConns, hs, crashed, sess>>

\* notifyConnection
notifyConnection(c) ==
    /\ ~crashed
    /\ ch[c].pc = "notify"
    /\ ch' = [ch EXCEPT ![c] = [@ EXCEPT !.pc = "dial", !.notified = TRUE]]
    /\ UNCHANGED <<storeVars, tableVars, sh, forceUser, nConns, hs, crashed, sess>>

\* a dial whose error is not tested: the handler goes on without a connection
DialIgnoringError(c, ok) ==
    /\ ~crashed
    /\ ch[c].pc = "dial"
    /\ ch' = [ch EXCEPT ![c] =
                [@ EXCEPT !.pc = "append", !.dialed = TRUE,
                          !.conn = IF ok THEN "open" ELSE "none",
                          !.proxiesRead = sess[ch[c].sess].Proxies]]
    /\ UNCHANGED <<storeVars, tableVars, sh, forceUser, nConns, hs, crashed, sess>>

\* net.Dial("tcp", address); on success the handler reads s.Proxies to append
Dial(c, ok) ==
    /\ ~crashed
    /\ ch[c].pc = "dial"
    /\ ch' = [ch EXCEPT ![c] =
                IF ok
                THEN [@ EXCEPT !.pc = "append", !.dialed = TRUE, !.conn = "open",
                               !.proxiesRead = sess[ch[c].sess].Proxies]
                ELSE [Rejected(c, ConnectionFailed, "error: dial") EXCEPT !.dialed = TRUE]]
    /\ UNCHANGED <<storeVars, tableVars, sh, forceUser, nConns, hs, crashed, sess>>

\* s.Proxies = append(s.Proxies, conn): the write
AppendProxy(c) ==
    /\ ~crashed
    /\ ch[c].pc = "append"
    /\ sess' = [sess EXCEPT ![ch[c].sess].Proxies = Append(ch[c].proxiesRead, c)]
    /\ ch' = [ch EXCEPT ![c] = [@ EXCEPT !.pc = "accept", !.proxiesRead = <<>>]]
    /\ UNCHANGED <<storeVars, tableVars, sh, forceUser, nConns, hs, crashed>>

\* newChannel.Accept(): the error is dropped and the copy goroutines are
\* started in either case; with a nil channel they panic
Accept(c, ok) ==
    /\ ~crashed
    /\ ch[c].pc = "accept"
    /\ ok => sess[ch[c].sess].open
    /\ IF ok
       THEN /\ ch' = [ch EXCEPT ![c] = [@ EXCEPT !.pc = "proxy", !.accepted = TRUE,
                                                !.channel = "open", !.copy = <<"copying", "copying">>]]
            /\ UNCHANGED crashed
       ELSE /\ ch' = [ch EXCEPT ![c] = [@ EXCEPT !.pc = "panic", !.channel = "nil",
                                                !.copy = <<"copying", "copying">>]]
            /\ crashed' = TRUE
    /\ UNCHANGED <<storeVars, tableVars, sh, forceUser, nConns, hs, sess>>

\* a latch that runs the function on every call
OnceRunsAlways(done) == TRUE

\* sync.Once.Do: whether this call runs the function
OnceRuns(done) == ~done

\* a teardown that leaves the agent channel of the handler open
closeFuncLeavesAgent(r) ==
    [r EXCEPT !.channel = "closed", !.conn = "closed", !.teardowns = @ + 1]

\* closeFunc: agentChan.Close(), channel.Close(), conn.Close()
closeFunc(r) ==
    [r EXCEPT !.agentChan = "closed", !.channel = "closed", !.conn = "closed",
              !.teardowns = @ + 1]

\* one copy direction ends (end of stream or an I/O error) and calls
\* closer.Do(closeFunc)
CopyEnd(c, d) ==
    /\ ~crashed
    /\ ch[c].pc = "proxy"
    /\ ch[c].copy[d] = "copying"
    /\ ch' = [ch EXCEPT ![c] =
                LET r == [@ EXCEPT !.copy[d] = "done", !.once = TRUE,
                                   !.pc = IF \A e \in {1, 2} \ {d} : ch[c].copy[e] = "done"
                                          THEN "finished" ELSE "proxy"]
                IN  IF OnceRuns(ch[c].once)
                    THEN closeFunc(r)
                    ELSE r]
    /\ UNCHANGED <<storeVars, tableVars, sh, forceUser, nConns, hs, crashed, sess>>

Next ==
    \/ \E user \in Users, key \in KeyIds \cup {UnknownKey}, proves \in BOOLEAN :
          nConns < MaxConns /\ RunAccept(user, key, proves)
    \/ \E s \in 1..MaxConns : SessionEnd(s)
    \/ \E s \in 1..MaxConns : DeleteReturn(s)
    \/ \E c \in Channels, s \in 1..MaxConns, type \in ChannelTypes : NewChannel(c, s, type)
    \/ \E c \in Channels : handleChannel(c)
    \/ \E c \in Channels, ok \in BOOLEAN : OpenAgent(c, ok)
    \/ \E c \in Channels : CheckVerified(c)
    \/ \E c \in Channels, ok \in BOOLEAN, list \in SignerLists : Signers(c, ok, list)
    \/ \E c \in Channels, randOk \in BOOLEAN, signOk \in BOOLEAN, token \in Tokens :
          VerifySigners(c, randOk, signOk, token)
    \/ \E c \in Channels, raddr \in Hosts, rport \in Ports : PolicyCheck(c, raddr, rport)
    \/ \E c \in Channels, genOk \in BOOLEAN, addOk \in BOOLEAN : addTempAuth(c, genOk, addOk)
    \/ \E c \in Channels : notifyConnection(c)
    \/ \E c \in Channels, ok \in BOOLEAN : Dial(c, ok)
    \/ \E c \in Channels : AppendProxy(c)
    \/ \E c \in Channels, ok \in BOOLEAN : Accept(c, ok)
    \/ \E c \in Channels, d \in {1, 2} : CopyEnd(c, d)

Spec == Init /\ [][Next]_vars

\* io.Copy on a closed channel or connection returns, and the goroutine it
\* runs in is scheduled: a copy direction whose endpoints the teardown has
\* closed ends
CopyFairness ==
    \A c \in Channels, d \in {1, 2} :
        WF_vars(ch[c].channel = "closed" /\ CopyEnd(c, d))

SpecLive == Init /\ [][Next]_vars /\ CopyFairness

(***************************************************************************)
(* Shell mode: SSHSession.handleChannel of the interactive variant         *)
(***************************************************************************)
\* handleChannels: the client opens a channel on session s and the loop
\* starts a handler for it
ShellChannel(c, s, type) ==
    /\ ~crashed
    /\ sh[c].pc = "idle"
    /\ \A d \in Channels : d < c => sh[d].pc # "idle"
    /\ s \in 1..Len(sess)
    /\ sh' = [sh EXCEPT ![c] = [@ EXCEPT !.pc = "handle", !.sess = s, !.type = type]]
    /\ UNCHANGED <<storeVars, tableVars, ch, forceUser, nConns, hs, crashed, sess>>

\* the test of the channel type, newChannel.Accept() and the MOTD
ShellAccept(c, ok) ==
    /\ ~crashed
    /\ sh[c].pc = "handle"
    /\ sh' = [sh EXCEPT ![c] =
                IF sh[c].type # "session"
                THEN [@ EXCEPT !.pc = "rejected",
                               !.reject = [code |-> UnknownChannelType,
                                           msg |-> "unknown channel type: " \o sh[c].type]]
                ELSE IF ~ok THEN [@ EXCEPT !.pc = "returned"]
                ELSE [@ EXCEPT !.pc = "mfa", !.connection = "open", !.motd = TRUE]]
    /\ UNCHANGED <<storeVars, tableVars, ch, forceUser, nConns, hs, crashed, sess>>

\* a loop that asks once more than MfaAttempts times
LoopGoesOnOneMore(i) == i <= MfaAttempts

\* the loop condition i < 3
LoopGoesOn(i) == i < MfaAttempts

\* one iteration of the MFA loop: the prompt, term.ReadLine and
\* totp.Validate; when the loop is left without a valid code the connection
\* is closed and the handler returns
MfaAttempt(c, readErr, line) ==
    /\ ~crashed
    /\ sh[c].pc = "mfa"
    /\ LoopGoesOn(sh[c].i)
    /\ LET secret == TotpSecret(heap[sess[sh[c].sess].Account].Username)
           asked == [sh[c] EXCEPT !.entered = Append(@, IF readErr THEN "" ELSE line)]
       IN sh' = [sh EXCEPT ![c] =
                    IF readErr
                    THEN [asked EXCEPT !.pc = "closed", !.connection = "closed"]
                    ELSE IF Validate(line, secret)
                    THEN [asked EXCEPT !.pc = "startShell", !.valid = TRUE]
                    ELSE IF LoopGoesOn(sh[c].i + 1)
                    THEN [asked EXCEPT !.i = @ + 1]
                    ELSE [asked EXCEPT !.i = @ + 1, !.pc = "closed", !.connection = "closed"]]
    /\ UNCHANGED <<storeVars, tableVars, ch, forceUser, nConns, hs, crashed, sess>>

\* close(): connection.Close() and bash.Process.Wait()
ShellClose(r) == [r EXCEPT !.connection = "closed", !.shell = "exited", !.closes = @ + 1]

\* exec.Command(s.Account.Shell) and pty.Start(bash).  When the start fails
\* close() is called with bash.Process nil, and bash.Process.Wait() panics.
StartShell(c, ok) ==
    /\ ~crashed
    /\ sh[c].pc = "startShell"
    /\ IF ok
       THEN /\ sh' = [sh EXCEPT ![c] = [@ EXCEPT !.pc = "shell", !.shell = "running",
                                                !.copy = <<"copying", "copying">>]]
            /\ UNCHANGED crashed
       ELSE /\ sh' = [sh EXCEPT ![c] = [@ EXCEPT !.pc = "panic", !.connection = "closed"]]
            /\ crashed' = TRUE
    /\ UNCHANGED <<storeVars, tableVars, ch, forceUser, nConns, hs, sess>>

\* one of the two copy loops reads io.EOF and calls once.Do(close)
ShellCopyEnd(c, d) ==
    /\ ~crashed
    /\ sh[c].pc = "shell"
    /\ sh[c].copy[d] = "copying"
    /\ sh' = [sh EXCEPT ![c] =
                LET r == [@ EXCEPT !.copy[d] = "done", !.once = TRUE,
                                   !.pc = IF \A e \in {1, 2} \ {d} : sh[c].copy[e] = "done"
                                          THEN "finished" ELSE "shell"]
                IN  IF OnceRuns(sh[c].once) THEN ShellClose(r) ELSE r]
    /\ UNCHANGED <<storeVars, tableVars, ch, forceUser, nConns, hs, crashed, sess>>

NextShell ==
    \/ \E user \in Users, key \in KeyIds \cup {UnknownKey}, proves \in BOOLEAN :
          nConns < MaxConns /\ RunAccept(user, key, proves)
    \/ \E c \in Channels, s \in 1..MaxConns, type \in ChannelTypes : ShellChannel(c, s, type)
    \/ \E c \in Channels, ok \in BOOLEAN : ShellAccept(c, ok)
    \/ \E c \in Channels, readErr \in BOOLEAN, line \in Lines : MfaAttempt(c, readErr, line)
    \/ \E c \in Channels, ok \in BOOLEAN : StartShell(c, ok)
    \/ \E c \in Channels, d \in {1, 2} : ShellCopyEnd(c, d)

SpecShell == Init /\ [][NextShell]_vars

\* the accept loop and the session table alone, for several connections
NextTable ==
    \/ \E user \in Users, key \in KeyIds \cup {UnknownKey}, proves \in BOOLEAN :
          nConns < MaxTableConns /\ RunAccept(user, key, proves)
    \/ \E s \in 1..MaxTableConns : SessionEnd(s)
    \/ \E s \in 1..MaxTableConns : DeleteReturn(s)

SpecTable == Init /\ [][NextTable]_vars


(***************************************************************************)
(* Notions the properties are stated in                                    *)
(***************************************************************************)
\* the accounts file the store was last asked to load
File == lastLoad.raw
Usernames(f) == {f[i].Username : i \in 1..Len(f)}
\* the key lines of f that parse, as <<account index, line index>>
KeyLines(f) ==
    {o \in (1..Len(f)) \X (1..MaxKeys + 1) :
        /\ o[2] <= Len(f[o[1]].SSHKeysRaw)
        /\ ~ParseAuthorizedKey(f[o[1]].SSHKeysRaw[o[2]]).err}
WireOf(f, o) == ParseAuthorizedKey(f[o[1]].SSHKeysRaw[o[2]]).key
WireIds(f) == {WireOf(f, o) : o \in KeyLines(f)}
DistinctUsernames(f) == \A i, j \in 1..Len(f) : i # j => f[i].Username # f[j].Username
DistinctKeys(f) == \A o1, o2 \in KeyLines(f) : o1 # o2 => WireOf(f, o1) # WireOf(f, o2)
\* key is one of the authorized keys the file lists for user
AuthorizedKey(f, user, key) ==
    \E o \in KeyLines(f) : f[o[1]].Username = user /\ WireOf(f, o) = key

Sessions == 1..Len(sess)
Started(c) == ch[c].pc # "idle"
\* the account of the session of channel c
AccountOf(c) == heap[sess[ch[c].sess].Account]
\* the policy of section 4.3 on host h
PolicyAllows(a, h) ==
    /\ (a.whitelistRe.nil \/ Match(a.whitelistRe, h))
    /\ (a.blacklistRe.nil \/ ~Match(a.blacklistRe, h))

(***************************************************************************)
(* Properties                                                              *)
(***************************************************************************)
\* C1: the verified flag of a session is monotonic: no step of a forward
\* handler, of a teardown or of the end of the session takes it from true
\* back to false.
VerifiedMonotonic ==
    [][\A s \in Sessions : sess[s].verified => sess'[s].verified]_vars

\* a verified session whose stream has ended, with a channel torn down and
\* another handler past its own verification
VerifiedMonotonicWitness ==
    \E s \in Sessions, c, d \in Channels :
        /\ c # d /\ ch[c].sess = s /\ ch[d].sess = s
        /\ sess[s].verified /\ ~sess[s].open
        /\ ch[c].teardowns = 1
        /\ ch[d].pc = "rejected" /\ ch[d].reject.code = Prohibited /\ ch[d].agentChan = "open"

\* C2: a handler that finds the session unverified and gets from the agent
\* no signer with a key of the session's account rejects the channel; hence
\* a certificate is added, a notification sent and a dial made only for a
\* session that is verified.
NoSignerRejects ==
    [][\A c \in Channels :
          /\ (/\ ch[c].pc = "verify" /\ ch'[c].pc # "verify"
              /\ \A i \in 1..Len(ch[c].signers) :
                    ~AuthorizedKey(File, sess[ch[c].sess].user, ch[c].signers[i].pub))
                => ch'[c].pc = "rejected"
          /\ (ch'[c].cert.added /\ ~ch[c].cert.added) => sess[ch[c].sess].verified
          /\ (ch'[c].notified /\ ~ch[c].notified) => sess[ch[c].sess].verified
          /\ (ch'[c].dialed /\ ~ch[c].dialed) => sess[ch[c].sess].verified]_vars

\* C3: verified goes from false to true only in a step in which a signer
\* with a key of the index that is a key of the session's account signed the
\* challenge of TokenLen bytes with that key; a failed generation, signature
\* or verification rejects the channel as prohibited and does not change
\* verified.
VerifiedOnlyByOwnKey ==
    [][\A s \in Sessions :
          /\ (sess'[s].verified /\ ~sess[s].verified) =>
                \E c \in Channels :
                    /\ ch[c].sess = s /\ ch[c].pc = "verify" /\ ch'[c].pc = "policy"
                    /\ \E i \in 1..Len(ch[c].signers) :
                          LET signer == ch[c].signers[i] IN
                          /\ signer.pub \in DOMAIN keys
                          /\ AuthorizedKey(File, sess[s].user, signer.pub)
                          /\ signer.priv = signer.pub
                          /\ \A j \in 1..(i - 1) :
                                ~AuthorizedKey(File, sess[s].user, ch[c].signers[j].pub)
          /\ \A c \in Channels :
                (/\ ch[c].sess = s /\ ch[c].pc = "verify"
                 /\ ch'[c].reject.msg \in {"cannot generate random token", "cannot sign random token",
                                           "signature verification failed"})
                    => /\ ch'[c].pc = "rejected"
                       /\ ch'[c].reject.code = Prohibited
                       /\ sess'[s].verified = sess[s].verified]_vars

\* C4: the policy decision recorded for a channel is allow exactly when the
\* whitelist is absent or matches the host and the blacklist is absent or
\* does not match the host, the host being RAddr of the forward request.
PolicyDecision ==
    \A c \in Channels :
        ch[c].policy # "none" =>
            ((ch[c].policy = "allow") <=> PolicyAllows(AccountOf(c), ch[c].raddr))

\* a host both expressions match is denied, and a host the anchored
\* whitelist matches is allowed although host:port is not matched
PolicyDecisionWitness ==
    \E c, d \in Channels :
        /\ ch[c].policy = "deny"
        /\ ~AccountOf(c).whitelistRe.nil /\ Match(AccountOf(c).whitelistRe, ch[c].raddr)
        /\ ~AccountOf(c).blacklistRe.nil /\ Match(AccountOf(c).blacklistRe, ch[c].raddr)
        /\ ch[d].policy = "allow"
        /\ ~AccountOf(d).blacklistRe.nil
        /\ ~AccountOf(d).whitelistRe.nil

\* C5: a channel whose destination host the policy denies is rejected with
\* connection-failed and "invalid permissions"; no certificate is added, no
\* notification sent, no dial made and the channel is not accepted.
DeniedChannelStops ==
    \A c \in Channels :
        (ch[c].policy # "none" /\ ~PolicyAllows(AccountOf(c), ch[c].raddr)) =>
            /\ ch[c].pc = "rejected"
            /\ ch[c].reject = [code |-> ConnectionFailed, msg |-> "invalid permissions"]
            /\ ~ch[c].cert.added
            /\ ~ch[c].notified
            /\ ~ch[c].dialed /\ ch[c].conn = "none"
            /\ ~ch[c].accepted

\* a channel to a blacklisted host was denied on a verified session
DeniedChannelStopsWitness ==
    \E c \in Channels :
        /\ ch[c].policy = "deny"
        /\ sess[ch[c].sess].verified
        /\ AccountOf(c).whitelistRe.nil
        /\ Match(AccountOf(c).blacklistRe, ch[c].raddr)

\* C6: when the agent channel cannot be opened the channel is rejected as
\* prohibited in that step, the session's verified flag and agent handle
\* stay as they were, and nothing further happens for the channel.
AgentOpenFailureStops ==
    /\ [](\A c \in Channels :
            (ch[c].type = "direct-tcpip" /\ ch[c].pc \notin {"idle", "handle", "openAgent"}
                /\ ch[c].agentChan = "none") =>
                /\ ch[c].pc = "rejected"
                /\ ch[c].reject.code = Prohibited
                /\ ch[c].policy = "none"
                /\ ~ch[c].cert.added
                /\ ~ch[c].notified
                /\ ~ch[c].dialed /\ ch[c].conn = "none"
                /\ ~ch[c].accepted)
    /\ [][\A c \in Channels :
            (ch[c].pc = "openAgent" /\ ch'[c].pc # "openAgent" /\ ch'[c].agentChan = "none") =>
                /\ ch'[c].pc = "rejected"
                /\ ch'[c].signers = <<>>
                /\ sess'[ch[c].sess].verified = sess[ch[c].sess].verified
                /\ sess'[ch[c].sess].Agent = sess[ch[c].sess].Agent]_vars

\* the agent channel of a second handler failed to open on a session that an
\* earlier handler verified and whose agent handle it set
AgentOpenFailureWitness ==
    \E c, d \in Channels :
        /\ c # d /\ ch[c].sess = ch[d].sess
        /\ ch[c].pc = "rejected" /\ ch[c].agentChan = "none" /\ ch[c].type = "direct-tcpip"
        /\ sess[ch[c].sess].verified
        /\ sess[ch[c].sess].Agent = d

\* C7: the handshake callback accepts the offered key exactly when the key
\* is in the index and is an authorized key of the account with the
\* username of the handshake, and a session exists only for such a pair.
HandshakeOnlyForOwnKey ==
    hs.err # "none" =>
        /\ (hs.err = "nil") <=> (hs.key \in DOMAIN keys /\ AuthorizedKey(File, hs.user, hs.key))
        /\ \A s \in Sessions : sess[s].user = hs.user /\ AuthorizedKey(File, hs.user, hs.key)

\* C8: after a reloadAccounts call that replaced the store the usernames and
\* the key wire identities of the file are each unique and are exactly the
\* entries of the two maps; a file with a duplicate username or key does not
\* replace the store; a key line that does not parse does not stop the reload.
AcceptedFileUnique ==
    /\ lastOutcome = "ok" =>
        /\ DistinctUsernames(File) /\ DistinctKeys(File)
        /\ DOMAIN accounts = Usernames(File)
        /\ DOMAIN keys = WireIds(File)
        /\ \A k \in DOMAIN keys : keys[k].Key = k
    /\ (~lastLoad.err /\ ~(DistinctUsernames(File) /\ DistinctKeys(File))) =>
            lastOutcome \in {"dupuser", "dupkey"}
    /\ (~lastLoad.err /\ DistinctUsernames(File) /\ DistinctKeys(File)) => lastOutcome = "ok"

\* a reload took a file of two accounts in which a line that does not parse
\* precedes a key
AcceptedFileUniqueWitness ==
    /\ nReloads = 1 /\ lastOutcome = "ok"
    /\ Len(File) = 2
    /\ Cardinality(DOMAIN keys) = 2
    /\ \E i \in 1..Len(File) :
        /\ Len(File[i].SSHKeysRaw) = 2
        /\ ParseAuthorizedKey(File[i].SSHKeysRaw[1]).err
        /\ ~ParseAuthorizedKey(File[i].SSHKeysRaw[2]).err

TeardownOnce ==
    \A c \in Channels :
        /\ ch[c].teardowns <= 1
        /\ ch[c].teardowns = 1 => ch[c].accepted
        /\ (\E d \in {1, 2} : ch[c].copy[d] = "done") => ch[c].teardowns = 1

\* both copy directions of a channel have ended and called the latch
TeardownOnceWitness ==
    \E c \in Channels :
        /\ ch[c].accepted
        /\ ch[c].copy = <<"done", "done">>
        /\ ch[c].teardowns = 1
        /\ ch[c].agentChan = "closed" /\ ch[c].channel = "closed" /\ ch[c].conn = "closed"

\* C11: once a copy direction of an accepted channel has ended, the agent
\* channel of its handler, the client channel and the TCP connection get
\* closed and the other direction ends too.  A process that has panicked has
\* exited: the kernel has closed its sockets and none of its goroutines runs.
ProxyEndsClosed ==
    \A c \in Channels :
        (ch[c].accepted /\ \E d \in {1, 2} : ch[c].copy[d] = "done")
            ~> (\/ crashed
                \/ /\ ch[c].agentChan = "closed" /\ ch[c].channel = "closed"
                   /\ ch[c].conn = "closed"
                   /\ ch[c].copy = <<"done", "done">>)

\* one channel is torn down with both directions ended while another
\* channel of the session is still copying
ProxyEndsClosedWitness ==
    \E c, d \in Channels :
        /\ ch[c].pc = "finished" /\ ch[c].copy = <<"done", "done">>
        /\ ch[c].agentChan = "closed" /\ ch[c].channel = "closed" /\ ch[c].conn = "closed"
        /\ ch[d].pc = "proxy" /\ ch[d].copy = <<"copying", "copying">>
        /\ ~crashed

\* C12: a session is in the session table under its UUID from its creation
\* until its channel stream closes, it is absent for good once its
\* handleChannels has returned, and the removal of one session leaves the
\* entry of every other session as it was.
TableTracksSessions ==
    /\ [](\A s \in Sessions :
            /\ sess[s].open => s \in sessions
            /\ (~sess[s].open /\ s \notin deleting) => s \notin sessions)
    /\ [][\A s \in Sessions :
            (s \in sessions /\ s \notin sessions') =>
                \A t \in Sessions \ {s} :
                    (t \in sessions) <=> (t \in sessions')]_vars

\* C13: a handshake that fails creates no session and leaves the session
\* table alone, and the daemon keeps running: the accept loop goes on to the
\* next connection.
HandshakeFailureContinues ==
    [][(nConns' = nConns + 1 /\ (hs'.err # "nil" \/ Len(sess') = Len(sess))) =>
          /\ sess' = sess
          /\ sessions' = sessions
          /\ ~crashed']_vars

\* C14: in shell mode a channel is asked for a TOTP code at most three
\* times; a shell is started only on a channel on which one of those codes
\* was the code of the secret of the session's account; after three codes
\* that are not, or after a read error, the connection of the channel is
\* closed and no shell is started on it.
MfaGate ==
    \A c \in Channels :
        LET code == TotpCode(TotpSecret(sess[sh[c].sess].user))
            n == Len(sh[c].entered)
        IN  /\ n <= 3
            /\ sh[c].shell # "none" =>
                  /\ n \in 1..3 /\ sh[c].entered[n] = code
                  /\ \A k \in 1..(n - 1) : sh[c].entered[k] \notin {code, ""}
            /\ (n = 3 /\ \A k \in 1..3 : sh[c].entered[k] # code) =>
                  sh[c].pc = "closed" /\ sh[c].connection = "closed" /\ sh[c].shell = "none"
            /\ (n > 0 /\ sh[c].entered[n] = "") =>
                  sh[c].pc = "closed" /\ sh[c].connection = "closed" /\ sh[c].shell = "none"

\* a shell runs on a channel that got the code right at the third prompt,
\* and another channel was closed after three wrong codes, one of them the
\* code of the other account
MfaGateWitness ==
    \E c, d \in Channels :
        /\ sh[c].shell = "running" /\ Len(sh[c].entered) = 3
        /\ sh[d].pc = "closed" /\ Len(sh[d].entered) = 3
        /\ \E k \in 1..3 : sh[d].entered[k] # "000000"

\* C15: of the handlers of one session at most one sets verified (a handler
\* that assigns true finds the flag false), and no handler of the session
\* has added a certificate before the flag takes its final value.
VerifiedFlippedOnce ==
    [][\A c \in Channels :
          LET s == ch[c].sess
              sets == /\ ch[c].pc = "verify" /\ ch'[c].pc = "policy"
                      /\ \E t \in Tokens :
                            VerifyLoop(ch[c].signers, keys, sess[s].Account, TRUE, TRUE, t) = "verified"
          IN  sets => /\ ~sess[s].verified
                      /\ \A d \in Channels : ch[d].sess = s => ~ch[d].cert.added]_vars

\* C16: the writes to the session table are serialized: no two sessions are
\* inside their delete at once, and no session is registered while a delete
\* is in progress.
TableWritesSerialized ==
    /\ [](Cardinality(deleting) <= 1)
    /\ [][Len(sess') > Len(sess) => deleting = {}]_vars

\* C17: the agent handle of a session is set by its first forward channel
\* and kept by the later ones, and a handler adds its certificate through a
\* handle whose agent channel is open.
AgentHandleReused ==
    [][/\ \A s \in Sessions : sess[s].Agent # 0 => sess'[s].Agent = sess[s].Agent
       /\ \A c \in Channels :
            (ch[c].pc = "addAuth" /\ ch'[c].cert.generated) =>
                ch[sess[ch[c].sess].Agent].agentChan = "open"]_vars

\* C18: the list of proxied connections of a session only grows at its end,
\* and the connection of every handler that has dialed and appended is in
\* it from then on, teardown included.
ProxiesAppendOnly ==
    /\ [](\A c \in Channels :
            (ch[c].conn # "none" /\ ch[c].pc # "append") =>
                \E k \in 1..Len(sess[ch[c].sess].Proxies) : sess[ch[c].sess].Proxies[k] = c)
    /\ [][\A s \in Sessions :
            /\ Len(sess'[s].Proxies) >= Len(sess[s].Proxies)
            /\ \A k \in 1..Len(sess[s].Proxies) : sess'[s].Proxies[k] = sess[s].Proxies[k]]_vars

\* C19: a forward handler goes through agent open, verification, policy
\* check, credential injection, notification, dial and accept in that order:
\* a channel is accepted only when the policy allowed the host, the
\* certificate was added and the dial succeeded; a notification is sent only
\* after the certificate was added; a failed dial rejects the channel with
\* connection-failed and the channel is not accepted.
HandlerOrder ==
    \A c \in Channels :
        /\ ch[c].pc \in {"signers", "verify"} => ch[c].agentChan = "open" /\ ch[c].policy = "none"
        /\ ch[c].policy # "none" => ch[c].agentChan # "none"
        /\ ch[c].cert.generated => ch[c].policy = "allow"
        /\ ch[c].notified => ch[c].cert.added
        /\ ch[c].dialed => ch[c].notified
        /\ ch[c].conn # "none" => ch[c].dialed
        /\ ch[c].accepted =>
              /\ ch[c].policy = "allow" /\ ch[c].cert.added /\ ch[c].notified
              /\ ch[c].conn # "none"
        /\ (ch[c].dialed /\ ch[c].conn = "none") =>
              /\ ch[c].pc = "rejected" /\ ch[c].reject.code = ConnectionFailed
              /\ ~ch[c].accepted

\* one channel is accepted and being proxied, another of the session was
\* rejected because its dial failed after the notification
HandlerOrderWitness ==
    \E c, d \in Channels :
        /\ ch[c].accepted /\ ch[c].pc = "proxy"
        /\ ch[d].sess = ch[c].sess
        /\ ch[d].dialed /\ ch[d].conn = "none" /\ ch[d].notified
        /\ ch[d].reject.code = ConnectionFailed

\* C20: a certificate added to the agent has the UUID of the session as its
\* key id, the configured force_user as its principal when that is not
\* empty and the username of the session's account otherwise, and a
\* lifetime of 10 seconds; when the CA fails to generate, nothing is added
\* and the handler gets the error (it rejects the channel).
CertificateFields ==
    \A c \in Channels :
        /\ ch[c].cert.added =>
              /\ ch[c].cert.generated
              /\ ch[c].cert.keyId = ch[c].sess
              /\ ch[c].cert.principal =
                    (IF forceUser # "" THEN forceUser ELSE sess[ch[c].sess].user)
              /\ ch[c].cert.lifetime = 10
        /\ (ch[c].policy = "allow" /\ ch[c].pc # "addAuth" /\ ~ch[c].cert.generated) =>
              /\ ~ch[c].cert.added
              /\ ch[c].pc = "rejected" /\ ch[c].reject.code = Prohibited
              /\ ~ch[c].notified /\ ~ch[c].dialed

\* with force_user set a certificate for "root" was added on a session of
\* another user, and on another channel the CA failed to generate
CertificateFieldsWitness ==
    \E c, d \in Channels :
        /\ ch[c].cert.added /\ forceUser = "root" /\ sess[ch[c].sess].user # "root"
        /\ ch[c].cert.principal = "root"
        /\ ch[d].policy = "allow" /\ ch[d].pc = "rejected" /\ ~ch[d].cert.generated

\* C21: after a reload that replaced the store, every AccountKey of the key
\* index references the account whose key list holds that key, every entry
\* of the username map references the account of that username, and
\* distinct usernames have distinct Account objects.
KeysReferenceOwners ==
    lastOutcome = "ok" =>
        /\ \A k \in DOMAIN keys :
              AuthorizedKey(File, heap[keys[k].Account].Username, k)
        /\ \A u \in DOMAIN accounts : heap[accounts[u]].Username = u
        /\ \A u, v \in DOMAIN accounts : u # v => accounts[u] # accounts[v]

\* C22: the outcome a client observes does not tell an unknown key, a key
\* of another user and a failed signature apart: the handshake callback
\* gives the one error badKeyError for every key it refuses, and a handler
\* whose verification finds no proof of a key of the session's account
\* (the signers hold keys that are unknown, keys of other accounts, or the
\* signature fails) rejects the channel with the one code prohibited.
RejectionsAlike ==
    /\ [](hs.err \notin {"none", "nil"} => hs.err = "badKeyError")
    /\ [][\A c \in Channels :
            LET s == ch[c].sess
                unproven == \A t \in Tokens :
                    VerifyLoop(ch[c].signers, keys, sess[s].Account, TRUE, TRUE, t) # "verified"
            IN  (/\ ch[c].pc = "verify" /\ ch'[c].pc # "verify"
                 /\ ch[c].signers # <<>> /\ ~sess[s].verified /\ unproven) =>
                    /\ ch'[c].pc = "rejected"
                    /\ ch'[c].reject.code = Prohibited]_vars

\* C23: a channel handed to a forwarding-mode session gets one outcome,
\* a Reject or an Accept and not both; a handler that has returned has given
\* one; a channel that is not direct-tcpip is rejected with
\* unknown-channel-type and no agent channel is opened for it; bytes are
\* copied only on a channel whose Accept returned without error.
OneOutcome ==
    \A c \in Channels :
        /\ ~(ch[c].reject.code # "none" /\ ch[c].accepted)
        /\ ch[c].pc = "rejected" <=> ch[c].reject.code # "none"
        /\ ch[c].pc \in {"proxy", "finished"} => ch[c].accepted
        /\ (ch[c].type # "direct-tcpip" /\ ch[c].pc \notin {"idle", "handle"}) =>
              /\ ch[c].reject.code = UnknownChannelType
              /\ ch[c].agentChan = "none"
        /\ ch[c].copy # <<"none", "none">> => ch[c].accepted /\ ch[c].channel # "nil"

\* C24: an agent channel a forward handler has opened does not stay open
\* for the rest of the session: a handler that has rejected its channel and
\* returned, on a session whose connection is still there, has left no
\* agent channel of its own open.
AgentChannelClosed ==
    \A c \in Channels :
        (ch[c].pc = "rejected" /\ sess[ch[c].sess].open) => ch[c].agentChan # "open"

====
